---- MODULE Spec2Model ----
(***************************************************************************)
(* Model of train_lorenz_gan.py: the experiment driver main(), the         *)
(* trajectory generator generate_lorenz_data() and the training glue       *)
(* train_lorenz_gan().                                                     *)
(*                                                                         *)
(* The collaborators imported from the lorenz_gan package                  *)
(* (run_lorenz96_truth, process_lorenz_data, save_lorenz_output,           *)
(* normalize_data, train_gan) are modelled at their documented boundary.   *)
(* Real numbers are kept exact: a value is a fraction [num, den]; a        *)
(* normalized value is [num, rad], standing for num / sqrt(rad).           *)
(***************************************************************************)
EXTENDS Integers, Sequences, FiniteSets, TLC

(***************************************************************************)
(* Bounds of the configurations explored.                                  *)
(***************************************************************************)
MaxSteps == 4
MaxSkip == 2
MaxBurnIn == 2
MaxBatch == 2

KValues == {0, 1, 2}
JValues == {0, 1, 2}
TimeSteps == {0, 3}
LagCounts == {1, 2}
Strides == {1, 2}
OutputModes == {"sample", "mean"}

VARIABLES
    pc,                 \* position of the run inside main()
    run_error,          \* "" or the exception that ended the run
    reload,             \* args.reload
    config,             \* the configuration loaded from the yaml file
    gan_path_exists,    \* the directory config["gan"]["gan_path"]
    nc_file,            \* config["output_nc_file"]: <<>> or <<content>>
    csv_file,           \* config["output_csv_file"]: <<>> or <<content>>
    x_scaling_file,     \* gan_X_scaling_values_NNNN.csv: <<>> or <<content>>
    y_scaling_file,     \* gan_Y_scaling_values_NNNN.csv: <<>> or <<content>>
    lorenz_out,         \* (X_out, Y_out, times, steps) of generate_lorenz_data
    combined_data,      \* the flat feature table held by main()
    norm,               \* locals of train_lorenz_gan after normalize_data
    trainer_args,       \* <<>> or <<the arguments train_gan was called with>>
    calls               \* the collaborator calls and file writes of this run

vars == <<pc, run_error, reload, config, gan_path_exists, nc_file, csv_file,
          x_scaling_file, y_scaling_file, lorenz_out, combined_data, norm,
          trainer_args, calls>>

----------------------------------------------------------------------------
(* Generic helpers                                                         *)

RECURSIVE SumSeq(_)
SumSeq(s) == IF s = <<>> THEN 0 ELSE Head(s) + SumSeq(Tail(s))

HasKey(d, k) == k \in DOMAIN d

NoTable == [columns |-> <<>>, rows |-> <<>>]
NoLorenz == [X_out |-> <<>>, Y_out |-> <<>>, times |-> <<>>, steps |-> <<>>]
NoNorm == [X_norm |-> <<>>, Y_norm |-> <<>>, X_series |-> <<>>, Y_target |-> <<>>,
           X_scaling_values |-> <<>>, Y_scaling_values |-> <<>>]

----------------------------------------------------------------------------
(* Python slicing seq[start::step], start >= 0, step >= 1                  *)

RECURSIVE SliceFromMut(_, _, _)
SliceFromMut(s, i, step) ==
    IF i > Len(s) \/ i < 1 THEN <<>>
    ELSE <<s[i]>> \o SliceFromMut(s, i + step, step)

\* the 0-based start used as a 1-based position
PySliceOffByOne(s, start, step) == SliceFromMut(s, IF start = 0 THEN 1 ELSE start, step)

\* stride first, burn-in second: s[::step][start:]
PySliceSkipFirst(s, start, step) ==
    LET sub == SliceFromMut(s, 1, step)
    IN  IF start >= Len(sub) THEN <<>> ELSE SubSeq(sub, start + 1, Len(sub))

RECURSIVE SliceFrom(_, _, _)
SliceFrom(s, i, step) ==
    IF i > Len(s) THEN <<>>
    ELSE <<s[i]>> \o SliceFrom(s, i + step, step)

PySlice(s, start, step) == SliceFrom(s, start + 1, step)

----------------------------------------------------------------------------
(* The Lorenz '96 truth run, at its boundary.  The two-scale ODE step is   *)
(* replaced by a deterministic integer step on the same cyclic layout; the *)
(* run returns one frame per integration step, frame k holding the state   *)
(* after step k, steps[k] = k and times[k] = k * time_step.                *)

ValueModulus == 3

StepX(X, Y, J) ==
    LET K == Len(X)
    IN  [i \in 1..K |->
            (X[((i + K - 2) % K) + 1] + X[i]
               + SumSeq(SubSeq(Y, (i - 1) * J + 1, i * J)) + 1) % ValueModulus]

StepY(X, Y, J) ==
    [j \in 1..Len(Y) |-> (Y[(j % Len(Y)) + 1] + X[((j - 1) \div J) + 1]) % ValueModulus]

\* frames k..num_steps of the run, the state before step k being (X, Y)
RECURSIVE Trajectory(_, _, _, _, _, _)
Trajectory(X, Y, J, time_step, k, num_steps) ==
    IF k > num_steps THEN NoLorenz
    ELSE LET X1 == StepX(X, Y, J)
             Y1 == StepY(X, Y, J)
             rest == Trajectory(X1, Y1, J, time_step, k + 1, num_steps)
         IN  [X_out |-> <<X1>> \o rest.X_out,
              Y_out |-> <<Y1>> \o rest.Y_out,
              times |-> <<k * time_step>> \o rest.times,
              steps |-> <<k>> \o rest.steps]

InvalidParameters(K, J, time_step, num_steps) ==
    K < 1 \/ J < 1 \/ time_step <= 0 \/ num_steps < 1

run_lorenz96_truth(X, Y, J, time_step, num_steps) ==
    Trajectory(X, Y, J, time_step, 1, num_steps)

----------------------------------------------------------------------------
(* generate_lorenz_data                                                    *)

\* X = np.zeros(K); X[0] = 1 raises when K < 1, likewise Y with J * K
InitialStateError(lc) == lc.K < 1 \/ lc.J * lc.K < 1

InitialX(lc) == [i \in 1..lc.K |-> IF i = 1 THEN 1 ELSE 0]
InitialY(lc) == [j \in 1..(lc.J * lc.K) |-> IF j = 1 THEN 1 ELSE 0]

RawRun(lc) ==
    run_lorenz96_truth(InitialX(lc), InitialY(lc), lc.J, lc.time_step, lc.num_steps)

\* times sliced without the burn-in offset
BurnInSlicesTimesFromZero(raw, lc) ==
    [X_out |-> PySlice(raw.X_out, lc.burn_in, lc.skip),
     Y_out |-> PySlice(raw.Y_out, lc.burn_in, lc.skip),
     times |-> PySlice(raw.times, 0, lc.skip),
     steps |-> PySlice(raw.steps, lc.burn_in, lc.skip)]

BurnInSlices(raw, lc) ==
    [X_out |-> PySlice(raw.X_out, lc.burn_in, lc.skip),
     Y_out |-> PySlice(raw.Y_out, lc.burn_in, lc.skip),
     times |-> PySlice(raw.times, lc.burn_in, lc.skip),
     steps |-> PySlice(raw.steps, lc.burn_in, lc.skip)]

----------------------------------------------------------------------------
(* The flat feature table                                                  *)

XCol(t) == IF t = 0 THEN "X_t" ELSE "X_t-" \o ToString(t)
YCol(y) == "Y_" \o ToString(y)

XCols(num_cond_inputs) == [t \in 1..num_cond_inputs |-> XCol(t - 1)]
YCols(J) == [y \in 1..J |-> YCol(y - 1)]

\* one row per eligible frame and selected slow variable, frame-major
process_lorenz_data(X_out, Y_out, times, steps, num_cond_inputs, J, x_skip, t_skip) ==
    LET nFrames == Len(X_out)
        K  == IF nFrames = 0 THEN 0 ELSE Len(X_out[1])
        NF == IF nFrames < num_cond_inputs THEN 0
              ELSE ((nFrames - num_cond_inputs) \div t_skip) + 1
        NI == IF K = 0 THEN 0 ELSE ((K - 1) \div x_skip) + 1
        Row(n) ==
            LET f == num_cond_inputs + ((n - 1) \div NI) * t_skip
                i == ((n - 1) % NI) * x_skip
            IN  [k \in 1..num_cond_inputs |-> X_out[f - (k - 1)][i + 1]]
                \o SubSeq(Y_out[f], i * J + 1, i * J + J)
                \o <<times[f], steps[f]>>
    IN  [columns |-> XCols(num_cond_inputs) \o YCols(J) \o <<"time", "step">>,
         rows |-> [n \in 1..(NF * NI) |-> Row(n)]]

\* DataFrame.to_csv(index=False): a header line and one line of decimal
\* numerals per row; pd.read_csv parses the numerals back
RECURSIVE Digits(_)
Digits(v) == IF v < 10 THEN <<v>> ELSE Digits(v \div 10) \o <<v % 10>>

RECURSIVE ParseDigits(_)
ParseDigits(ds) ==
    IF Len(ds) = 1 THEN ds[1]
    ELSE 10 * ParseDigits(SubSeq(ds, 1, Len(ds) - 1)) + ds[Len(ds)]

to_csv(table) ==
    [header |-> table.columns,
     lines |-> [r \in 1..Len(table.rows) |->
                   [c \in 1..Len(table.columns) |-> Digits(table.rows[r][c])]]]

read_csv(text) ==
    [columns |-> text.header,
     rows |-> [r \in 1..Len(text.lines) |->
                  [c \in 1..Len(text.header) |-> ParseDigits(text.lines[r][c])]]]

----------------------------------------------------------------------------
(* train_lorenz_gan: column selection, normalization, trimming             *)

ColumnIndex(columns, name) == CHOOSE c \in 1..Len(columns) : columns[c] = name

\* combined_data[cols].values
SelectColumns(table, cols) ==
    [r \in 1..Len(table.rows) |->
        [c \in 1..Len(cols) |-> table.rows[r][ColumnIndex(table.columns, cols[c])]]]

Fraction(n, d) == [num |-> n, den |-> d]

\* np.expand_dims(values, axis=-1): rows x channels x 1
AsSeries(values) ==
    [r \in 1..Len(values) |-> [c \in 1..Len(values[r]) |-> Fraction(values[r][c], 1)]]

\* np.expand_dims(Y_series.mean(axis=1), axis=-1): rows x 1 x 1
RowMean(Y_series) ==
    [r \in 1..Len(Y_series) |->
        <<Fraction(SumSeq([c \in 1..Len(Y_series[r]) |-> Y_series[r][c].num]),
                   Len(Y_series[r]))>>]

\* output mode compared without .lower() against "Mean"
NormalizerTargetNoMean(output, Y_series) == Y_series

NormalizerTarget(output, Y_series) ==
    IF output = "mean" THEN RowMean(Y_series) ELSE Y_series

\* normalize_data: per-channel population mean and standard deviation over
\* the rows of a rows x channels x 1 array whose channel values share one
\* denominator.  With n rows, S the sum and Q the sum of squares of the
\* numerators, mean = S / (n * den), variance = (n*Q - S*S) / (n * den)^2, and
\* (v - mean) / std = (n * v.num - S) / sqrt(n*Q - S*S); a zero radicand is
\* the floored standard deviation, under which every value normalizes to 0.
normalize_data(arr, channels) ==
    LET n == Len(arr)
        Den(c) == IF n = 0 THEN 1 ELSE arr[1][c].den
        S(c) == SumSeq([r \in 1..n |-> arr[r][c].num])
        Q(c) == SumSeq([r \in 1..n |-> arr[r][c].num * arr[r][c].num])
    IN  [normalized |->
            [r \in 1..n |->
                [c \in 1..channels |->
                    [num |-> n * arr[r][c].num - S(c), rad |-> n * Q(c) - S(c) * S(c)]]],
         scaling_values |->
            [c \in 1..channels |->
                [channel |-> c - 1,
                 mean |-> Fraction(S(c), n * Den(c)),
                 variance |-> Fraction(n * Q(c) - S(c) * S(c), n * Den(c) * n * Den(c))]]]

\* arr[:-trim] taken also when trim = 0
TrimTailAlways(arr, batch_size) ==
    LET trim == Len(arr) % batch_size
    IN  IF trim = 0 THEN <<>> ELSE SubSeq(arr, 1, Len(arr) - trim)

\* trim = shape[0] % batch_size; arr[:-trim] if trim > 0
TrimTail(arr, batch_size) ==
    LET trim == Len(arr) % batch_size
    IN  IF trim > 0 THEN SubSeq(arr, 1, Len(arr) - trim) ELSE arr

----------------------------------------------------------------------------
(* Configurations: the "lorenz" and "gan" sections of the yaml file.  The  *)
(* key gan.batch_size may be absent.                                       *)

LorenzConfigs ==
    [K : KValues, J : JValues, time_step : TimeSteps,
     num_steps : 0..MaxSteps, skip : 1..MaxSkip, burn_in : 0..MaxBurnIn]

GanWithoutBatch ==
    [num_cond_inputs : LagCounts, x_skip : Strides, t_skip : Strides, output : OutputModes]

GanConfigs ==
    GanWithoutBatch \cup
    {g @@ [batch_size |-> b] : g \in GanWithoutBatch, b \in 1..MaxBatch}

Configs == [lorenz : LorenzConfigs, gan : GanConfigs]

Init ==
    /\ pc = "start"
    /\ run_error = ""
    /\ reload \in BOOLEAN
    /\ config \in Configs
    /\ gan_path_exists = FALSE
    /\ nc_file = <<>>
    /\ csv_file = <<>>
    /\ x_scaling_file = <<>>
    /\ y_scaling_file = <<>>
    /\ lorenz_out = NoLorenz
    /\ combined_data = NoTable
    /\ norm = NoNorm
    /\ trainer_args = <<>>
    /\ calls = <<>>

Raise(exception) ==
    /\ pc' = "error"
    /\ run_error' = exception

----------------------------------------------------------------------------
(* main                                                                    *)

\* lines 62-70: parse the arguments, load the yaml file, create gan_path
main_load_config ==
    /\ pc = "start"
    /\ pc' = "branch"
    /\ gan_path_exists' = TRUE
    /\ UNCHANGED <<run_error, reload, config, nc_file, csv_file, x_scaling_file,
                   y_scaling_file, lorenz_out, combined_data, norm, trainer_args, calls>>

\* the reload flag ignored: the data are regenerated and saved again
main_reload_regenerates ==
    /\ pc = "branch"
    /\ reload
    /\ csv_file # <<>>
    /\ ~InitialStateError(config.lorenz)
    /\ LET lc == config.lorenz
           out == BurnInSlices(RawRun(lc), lc)
           table == process_lorenz_data(out.X_out, out.Y_out, out.times, out.steps,
                                        config.gan.num_cond_inputs, lc.J,
                                        config.gan.x_skip, config.gan.t_skip)
       IN  /\ combined_data' = table
           /\ csv_file' = <<to_csv(table)>>
           /\ calls' = calls \o <<"run_lorenz96_truth", "process_lorenz_data", "to_csv">>
    /\ pc' = "train"
    /\ UNCHANGED <<run_error, reload, config, gan_path_exists, nc_file,
                   x_scaling_file, y_scaling_file, lorenz_out, norm, trainer_args>>

\* lines 71-73: combined_data = pd.read_csv(config["output_csv_file"])
main_reload ==
    /\ pc = "branch"
    /\ reload
    /\ csv_file # <<>>
    /\ combined_data' = read_csv(csv_file[1])
    /\ calls' = Append(calls, "read_csv")
    /\ pc' = "train"
    /\ UNCHANGED <<run_error, reload, config, gan_path_exists, nc_file, csv_file,
                   x_scaling_file, y_scaling_file, lorenz_out, norm, trainer_args>>

\* a missing reload file answered by silently regenerating the data
main_reload_missing_fallback ==
    /\ pc = "branch"
    /\ reload
    /\ csv_file = <<>>
    /\ ~InitialStateError(config.lorenz)
    /\ lorenz_out' = BurnInSlices(RawRun(config.lorenz), config.lorenz)
    /\ calls' = Append(calls, "run_lorenz96_truth")
    /\ pc' = "process"
    /\ UNCHANGED <<run_error, reload, config, gan_path_exists, nc_file, csv_file,
                   x_scaling_file, y_scaling_file, combined_data, norm, trainer_args>>

\* line 73 with no file at output_csv_file: read_csv raises
main_reload_missing ==
    /\ pc = "branch"
    /\ reload
    /\ csv_file = <<>>
    /\ Raise("FileNotFoundError")
    /\ UNCHANGED <<reload, config, gan_path_exists, nc_file, csv_file, x_scaling_file,
                   y_scaling_file, lorenz_out, combined_data, norm, trainer_args, calls>>

\* lines 97-100 of generate_lorenz_data with K < 1 or J * K < 1: X[0] = 1
\* or Y[0] = 1 raises before the truth run is called
generate_lorenz_data_index_error ==
    /\ pc = "branch"
    /\ ~reload
    /\ InitialStateError(config.lorenz)
    /\ Raise("IndexError")
    /\ UNCHANGED <<reload, config, gan_path_exists, nc_file, csv_file, x_scaling_file,
                   y_scaling_file, lorenz_out, combined_data, norm, trainer_args, calls>>

\* lines 102-103 with a time step or step count the truth run rejects
generate_lorenz_data_invalid ==
    /\ pc = "branch"
    /\ ~reload
    /\ ~InitialStateError(config.lorenz)
    /\ InvalidParameters(config.lorenz.K, config.lorenz.J,
                         config.lorenz.time_step, config.lorenz.num_steps)
    /\ calls' = Append(calls, "run_lorenz96_truth")
    /\ Raise("InvalidParameters")
    /\ UNCHANGED <<reload, config, gan_path_exists, nc_file, csv_file, x_scaling_file,
                   y_scaling_file, lorenz_out, combined_data, norm, trainer_args>>

\* line 75 and lines 97-105: the truth run, then the [burn_in::skip] slices
generate_lorenz_data ==
    /\ pc = "branch"
    /\ ~reload
    /\ ~InitialStateError(config.lorenz)
    /\ ~InvalidParameters(config.lorenz.K, config.lorenz.J,
                          config.lorenz.time_step, config.lorenz.num_steps)
    /\ lorenz_out' = BurnInSlices(RawRun(config.lorenz), config.lorenz)
    /\ calls' = Append(calls, "run_lorenz96_truth")
    /\ pc' = "process"
    /\ UNCHANGED <<run_error, reload, config, gan_path_exists, nc_file, csv_file,
                   x_scaling_file, y_scaling_file, combined_data, norm, trainer_args>>

\* lines 76-79
main_process_lorenz_data ==
    /\ pc = "process"
    /\ combined_data' =
          process_lorenz_data(lorenz_out.X_out, lorenz_out.Y_out,
                              lorenz_out.times, lorenz_out.steps,
                              config.gan.num_cond_inputs, config.lorenz.J,
                              config.gan.x_skip, config.gan.t_skip)
    /\ calls' = Append(calls, "process_lorenz_data")
    /\ pc' = "save_nc"
    /\ UNCHANGED <<run_error, reload, config, gan_path_exists, nc_file, csv_file,
                   x_scaling_file, y_scaling_file, lorenz_out, norm, trainer_args>>

\* line 80: the trajectory and the lorenz section, written to output_nc_file
main_save_lorenz_output ==
    /\ pc = "save_nc"
    /\ nc_file' = <<[data |-> lorenz_out, attrs |-> config.lorenz]>>
    /\ calls' = Append(calls, "save_lorenz_output")
    /\ pc' = "to_csv"
    /\ UNCHANGED <<run_error, reload, config, gan_path_exists, csv_file,
                   x_scaling_file, y_scaling_file, lorenz_out, combined_data, norm,
                   trainer_args>>

\* training entered with the flat table never written
main_to_csv_skipped ==
    /\ pc = "to_csv"
    /\ pc' = "train"
    /\ UNCHANGED <<run_error, reload, config, gan_path_exists, nc_file, csv_file,
                   x_scaling_file, y_scaling_file, lorenz_out, combined_data, norm,
                   trainer_args, calls>>

\* lines 81-83: combined_data.to_csv(..., index=False), then train_lorenz_gan
main_to_csv ==
    /\ pc = "to_csv"
    /\ csv_file' = <<to_csv(combined_data)>>
    /\ calls' = Append(calls, "to_csv")
    /\ pc' = "train"
    /\ UNCHANGED <<run_error, reload, config, gan_path_exists, nc_file,
                   x_scaling_file, y_scaling_file, lorenz_out, combined_data, norm,
                   trainer_args>>

----------------------------------------------------------------------------
(* train_lorenz_gan                                                        *)

\* lines 119-133: select the lag and target columns, normalize both arrays
train_lorenz_gan_normalize ==
    /\ pc = "train"
    /\ LET x_cols == XCols(config.gan.num_cond_inputs)
           X_series == AsSeries(SelectColumns(combined_data, x_cols))
           Y_series == AsSeries(SelectColumns(combined_data, YCols(config.lorenz.J)))
           Y_target == NormalizerTarget(config.gan.output, Y_series)
           Y_channels == IF config.gan.output = "mean" THEN 1 ELSE config.lorenz.J
           nx == normalize_data(X_series, Len(x_cols))
           ny == normalize_data(Y_target, Y_channels)
       IN  norm' = [X_series |-> X_series, Y_target |-> Y_target,
                    X_norm |-> nx.normalized, Y_norm |-> ny.normalized,
                    X_scaling_values |-> nx.scaling_values,
                    Y_scaling_values |-> ny.scaling_values]
    /\ calls' = calls \o <<"normalize_data_X", "normalize_data_Y">>
    /\ pc' = "x_scaling"
    /\ UNCHANGED <<run_error, reload, config, gan_path_exists, nc_file, csv_file,
                   x_scaling_file, y_scaling_file, lorenz_out, combined_data,
                   trainer_args>>

\* lines 134-136: X_scaling_values.to_csv(..., index_label="Channel")
train_lorenz_gan_save_x_scaling ==
    /\ pc = "x_scaling"
    /\ x_scaling_file' = <<norm.X_scaling_values>>
    /\ calls' = Append(calls, "X_scaling_values.to_csv")
    /\ pc' = "y_scaling"
    /\ UNCHANGED <<run_error, reload, config, gan_path_exists, nc_file, csv_file,
                   y_scaling_file, lorenz_out, combined_data, norm, trainer_args>>

\* the Y scaling table never written
train_lorenz_gan_skip_y_scaling ==
    /\ pc = "y_scaling"
    /\ pc' = "train_gan"
    /\ UNCHANGED <<run_error, reload, config, gan_path_exists, nc_file, csv_file,
                   x_scaling_file, y_scaling_file, lorenz_out, combined_data, norm,
                   trainer_args, calls>>

\* lines 137-139: Y_scaling_values.to_csv(..., index_label="Channel")
train_lorenz_gan_save_y_scaling ==
    /\ pc = "y_scaling"
    /\ y_scaling_file' = <<norm.Y_scaling_values>>
    /\ calls' = Append(calls, "Y_scaling_values.to_csv")
    /\ pc' = "train_gan"
    /\ UNCHANGED <<run_error, reload, config, gan_path_exists, nc_file, csv_file,
                   x_scaling_file, lorenz_out, combined_data, norm, trainer_args>>

\* line 140 with gan.batch_size absent from the configuration
train_lorenz_gan_no_batch_size ==
    /\ pc = "train_gan"
    /\ ~HasKey(config.gan, "batch_size")
    /\ Raise("KeyError")
    /\ UNCHANGED <<reload, config, gan_path_exists, nc_file, csv_file, x_scaling_file,
                   y_scaling_file, lorenz_out, combined_data, norm, trainer_args, calls>>

\* lines 140-156: trim both arrays to a multiple of batch_size, call train_gan
train_lorenz_gan_train_gan ==
    /\ pc = "train_gan"
    /\ HasKey(config.gan, "batch_size")
    /\ trainer_args' =
          <<[Y_norm |-> TrimTail(norm.Y_norm, config.gan.batch_size),
             X_norm |-> TrimTail(norm.X_norm, config.gan.batch_size),
             batch_size |-> config.gan.batch_size,
             Y_scaling_values |-> norm.Y_scaling_values,
             X_scaling_values |-> norm.X_scaling_values]>>
    /\ calls' = Append(calls, "train_gan")
    /\ pc' = "done"
    /\ UNCHANGED <<run_error, reload, config, gan_path_exists, nc_file, csv_file,
                   x_scaling_file, y_scaling_file, lorenz_out, combined_data, norm>>

----------------------------------------------------------------------------
(* The script started again on the same configuration file and directory:  *)
(* the files persist, everything in memory starts afresh.                  *)

main_start_again ==
    /\ pc \in {"done", "error"}
    /\ pc' = "start"
    /\ run_error' = ""
    /\ reload' \in BOOLEAN
    /\ lorenz_out' = NoLorenz
    /\ combined_data' = NoTable
    /\ norm' = NoNorm
    /\ trainer_args' = <<>>
    /\ calls' = <<>>
    /\ UNCHANGED <<config, gan_path_exists, nc_file, csv_file, x_scaling_file,
                   y_scaling_file>>

Next ==
    \/ main_load_config
    \/ main_reload
    \/ main_reload_missing
    \/ generate_lorenz_data_index_error
    \/ generate_lorenz_data_invalid
    \/ generate_lorenz_data
    \/ main_process_lorenz_data
    \/ main_save_lorenz_output
    \/ main_to_csv
    \/ train_lorenz_gan_normalize
    \/ train_lorenz_gan_save_x_scaling
    \/ train_lorenz_gan_save_y_scaling
    \/ train_lorenz_gan_no_batch_size
    \/ train_lorenz_gan_train_gan
    \/ main_start_again

Spec == Init /\ [][Next]_vars

----------------------------------------------------------------------------
(* Properties                                                              *)

Contains(s, e) == \E i \in 1..Len(s) : s[i] = e

Count(s, e) == Cardinality({i \in 1..Len(s) : s[i] = e})

Position(s, e) == CHOOSE i \in 1..Len(s) : s[i] = e

IsPrefix(s, t) == Len(s) <= Len(t) /\ s = SubSeq(t, 1, Len(s))

GenerationCalls ==
    {"run_lorenz96_truth", "process_lorenz_data", "save_lorenz_output", "to_csv"}

TrainingPcs == {"train", "x_scaling", "y_scaling", "train_gan", "done"}

\* the table a regenerating run computes from the configuration
RegeneratedTable ==
    LET lc == config.lorenz
        out == BurnInSlices(RawRun(lc), lc)
    IN  process_lorenz_data(out.X_out, out.Y_out, out.times, out.steps,
                            config.gan.num_cond_inputs, lc.J,
                            config.gan.x_skip, config.gan.t_skip)

\* generate_lorenz_data has just returned to main
Generated ==
    /\ ~reload
    /\ pc = "process"
    /\ calls = <<"run_lorenz96_truth">>

\* C1: in a reload run that finds the flat feature file, the truth run and
\* the feature builder are never called and neither the trajectory file nor
\* the flat file is written; the table given to train_lorenz_gan is the
\* parsed content of the flat file, which is row for row the table that the
\* earlier regenerating run on this configuration computed and saved.
Claim_C1_ReloadSkipsGeneration ==
    (reload /\ csv_file # <<>>) =>
        /\ \A e \in GenerationCalls : ~Contains(calls, e)
        /\ csv_file = <<to_csv(RegeneratedTable)>>
        /\ nc_file = <<[data |-> BurnInSlices(RawRun(config.lorenz), config.lorenz),
                        attrs |-> config.lorenz]>>
        /\ pc \in TrainingPcs =>
              /\ calls[1] = "read_csv"
              /\ combined_data = read_csv(csv_file[1])
              /\ combined_data = RegeneratedTable

Witness_C1_ReloadedAndTrained ==
    /\ reload
    /\ pc = "done"
    /\ Contains(calls, "read_csv")
    /\ Len(combined_data.rows) >= 2

\* C2 as stated: without the reload flag the raw trajectory file is written
\* before the feature builder is invoked.
Original_C2_TrajectorySavedBeforeFeatures ==
    (~reload /\ Contains(calls, "process_lorenz_data")) =>
        /\ Contains(calls, "save_lorenz_output")
        /\ Position(calls, "save_lorenz_output") < Position(calls, "process_lorenz_data")

PipelineOrder ==
    <<"run_lorenz96_truth", "process_lorenz_data", "save_lorenz_output", "to_csv">>

\* C2 amended: without the reload flag the steps happen in the order truth
\* run, feature builder, trajectory file written, flat file written; the
\* trajectory file is written after the feature builder has run, and all
\* four steps are complete, with both files present, before training starts.
Claim_C2_RegenerateOrder ==
    ~reload =>
        /\ IF Len(calls) <= 4 THEN IsPrefix(calls, PipelineOrder)
           ELSE SubSeq(calls, 1, 4) = PipelineOrder
        /\ \A e \in GenerationCalls : Count(calls, e) <= 1
        /\ pc \in TrainingPcs =>
              /\ Len(calls) >= 4
              /\ nc_file = <<[data |-> lorenz_out, attrs |-> config.lorenz]>>
              /\ csv_file = <<to_csv(combined_data)>>

Witness_C2_RegeneratedAndTrained ==
    /\ ~reload
    /\ pc = "done"
    /\ SubSeq(calls, 1, 4) = PipelineOrder
    /\ Len(lorenz_out.steps) >= 2

TrainingOrder ==
    <<"normalize_data_X", "normalize_data_Y", "X_scaling_values.to_csv",
      "Y_scaling_values.to_csv", "train_gan">>

\* C3: on the reload path and on the regenerate path alike, train_gan is
\* called at most once per run, and when it is called both arrays have been
\* normalized and both scaling tables of this run have been written, in that
\* order and before the call.
Claim_C3_ScalingSavedBeforeTraining ==
    /\ Count(calls, "train_gan") <= 1
    /\ (pc = "done") = Contains(calls, "train_gan")
    /\ (trainer_args # <<>>) = Contains(calls, "train_gan")
    /\ Contains(calls, "train_gan") =>
          /\ Len(calls) >= 5
          /\ SubSeq(calls, Len(calls) - 4, Len(calls)) = TrainingOrder
          /\ \A e \in {"normalize_data_X", "normalize_data_Y",
                       "X_scaling_values.to_csv", "Y_scaling_values.to_csv"} :
                Count(calls, e) = 1
          /\ x_scaling_file = <<norm.X_scaling_values>>
          /\ y_scaling_file = <<norm.Y_scaling_values>>
          /\ trainer_args[1].X_scaling_values = norm.X_scaling_values
          /\ trainer_args[1].Y_scaling_values = norm.Y_scaling_values

Witness_C3_TrainedAfterReload ==
    /\ reload
    /\ pc = "done"
    /\ trainer_args # <<>>
    /\ Len(x_scaling_file[1]) = 2
    /\ Len(y_scaling_file[1]) = 2

\* C4: with n table rows and batch size B, both arrays given to train_gan
\* have n - (n mod B) rows, a multiple of B; they are the first n - (n mod B)
\* rows of the normalized arrays in their order, and nothing is dropped when
\* B divides n.
Claim_C4_TrimToBatchMultiple ==
    trainer_args # <<>> =>
        LET B == trainer_args[1].batch_size
            n == Len(combined_data.rows)
            keep == n - (n % B)
            X == trainer_args[1].X_norm
            Y == trainer_args[1].Y_norm
        IN  /\ B = config.gan.batch_size
            /\ Len(norm.X_norm) = n
            /\ Len(norm.Y_norm) = n
            /\ Len(X) = keep
            /\ Len(Y) = keep
            /\ keep % B = 0
            /\ \A r \in 1..keep : X[r] = norm.X_norm[r] /\ Y[r] = norm.Y_norm[r]
            /\ (n % B = 0) => (X = norm.X_norm /\ Y = norm.Y_norm)

Witness_C4_TailDropped ==
    /\ trainer_args # <<>>
    /\ Len(combined_data.rows) % trainer_args[1].batch_size # 0
    /\ Len(trainer_args[1].X_norm) >= trainer_args[1].batch_size
    /\ Len(trainer_args[1].X_norm) < Len(norm.X_norm)

\* num_steps >= 1, skip >= 1, 0 <= burn_in < num_steps / skip
ValidLorenz(lc) ==
    /\ lc.num_steps >= 1
    /\ lc.skip >= 1
    /\ lc.burn_in >= 0
    /\ lc.burn_in * lc.skip < lc.num_steps

\* C5 as stated: for a valid configuration generate_lorenz_data returns
\* floor(num_steps / skip) - burn_in frames.
Original_C5_FrameCount ==
    (Generated /\ ValidLorenz(config.lorenz)) =>
        Len(lorenz_out.X_out) =
            (config.lorenz.num_steps \div config.lorenz.skip) - config.lorenz.burn_in

\* C5 amended: for a valid configuration generate_lorenz_data returns
\* ceil((num_steps - burn_in) / skip) frames in each of its four sequences,
\* which is at least one and so never negative.
Claim_C5_FrameCount ==
    (Generated /\ ValidLorenz(config.lorenz)) =>
        LET lc == config.lorenz
            frames == (lc.num_steps - lc.burn_in + lc.skip - 1) \div lc.skip
        IN  /\ Len(lorenz_out.X_out) = frames
            /\ Len(lorenz_out.steps) = frames
            /\ frames >= 1

Witness_C5_CountsDiffer ==
    /\ Generated
    /\ ValidLorenz(config.lorenz)
    /\ config.lorenz.skip > 1
    /\ config.lorenz.burn_in > 0
    /\ Len(lorenz_out.X_out) #
          (config.lorenz.num_steps \div config.lorenz.skip) - config.lorenz.burn_in

\* the frames of a per-step sequence at the given step indices
FramesAt(perStep, stepIndices) ==
    [f \in 1..Len(stepIndices) |-> perStep[stepIndices[f]]]

\* C6 as stated: burn-in is counted in recorded frames; the first retained
\* frame is recorded frame burn_in + 1 of the every-skip-th-step series and
\* every retained step index is a multiple of skip.
Original_C6_BurnInInRecordedFrames ==
    Generated =>
        /\ \A f \in 1..Len(lorenz_out.steps) : lorenz_out.steps[f] % config.lorenz.skip = 0
        /\ Len(lorenz_out.steps) > 0 =>
              lorenz_out.steps[1] = (config.lorenz.burn_in + 1) * config.lorenz.skip

\* C6 amended: burn-in is counted in raw integration steps; the first
\* burn_in per-step frames are discarded and then every skip-th frame of the
\* rest is kept, starting with its first, so the f-th retained frame is
\* per-step frame burn_in + (f - 1) * skip + 1 and consecutive retained
\* frames are skip integration steps apart.
Claim_C6_BurnInInRawSteps ==
    Generated =>
        LET lc == config.lorenz
            raw == RawRun(lc)
        IN  /\ \A f \in 1..Len(lorenz_out.steps) :
                  /\ lc.burn_in + (f - 1) * lc.skip + 1 <= lc.num_steps
                  /\ lorenz_out.steps[f] = lc.burn_in + (f - 1) * lc.skip + 1
                  /\ f > 1 => lorenz_out.steps[f] - lorenz_out.steps[f - 1] = lc.skip
            /\ lorenz_out.X_out =
                  FramesAt(raw.X_out,
                           [f \in 1..Len(lorenz_out.X_out) |-> lc.burn_in + (f - 1) * lc.skip + 1])

Witness_C6_BurnInOffGrid ==
    /\ Generated
    /\ config.lorenz.skip > 1
    /\ config.lorenz.burn_in > 0
    /\ Len(lorenz_out.steps) >= 2
    /\ lorenz_out.steps[1] = config.lorenz.burn_in + 1

\* C7: a reload run that finds no flat feature file ends in an error; it
\* never calls the truth run, the feature builder or the trainer and never
\* writes the trajectory, flat feature or scaling-table files.
Claim_C7_ReloadWithoutFileIsAnError ==
    (reload /\ csv_file = <<>>) =>
        /\ pc \in {"start", "branch", "error"}
        /\ pc = "error" => run_error = "FileNotFoundError"
        /\ calls = <<>>
        /\ trainer_args = <<>>
        /\ nc_file = <<>>
        /\ x_scaling_file = <<>>
        /\ y_scaling_file = <<>>

Witness_C7_ReloadFailed ==
    /\ reload
    /\ csv_file = <<>>
    /\ pc = "error"
    /\ run_error = "FileNotFoundError"
    /\ ~InitialStateError(config.lorenz)

InvalidConfig(c) ==
    \/ InvalidParameters(c.lorenz.K, c.lorenz.J, c.lorenz.time_step, c.lorenz.num_steps)
    \/ ~HasKey(c.gan, "batch_size")

\* C8: with a missing or invalid required field in the configuration the run
\* fails before the truth run is invoked and before any trajectory or
\* feature file is written.
Original_C8_ConfigValidatedAtStartup ==
    InvalidConfig(config) =>
        /\ ~Contains(calls, "run_lorenz96_truth")
        /\ ~Contains(calls, "save_lorenz_output")
        /\ ~Contains(calls, "to_csv")

\* C9: the four sequences returned by generate_lorenz_data are selected by
\* the same frame indices: they have one length, frame f of each belongs to
\* the same integration step, times[f] = steps[f] * time_step, and times and
\* steps are strictly increasing in f.
Claim_C9_SequencesAligned ==
    Generated =>
        LET lc == config.lorenz
            raw == RawRun(lc)
            n == Len(lorenz_out.steps)
        IN  /\ Len(lorenz_out.X_out) = n
            /\ Len(lorenz_out.Y_out) = n
            /\ Len(lorenz_out.times) = n
            /\ lorenz_out.X_out = FramesAt(raw.X_out, lorenz_out.steps)
            /\ lorenz_out.Y_out = FramesAt(raw.Y_out, lorenz_out.steps)
            /\ \A f \in 1..n :
                  /\ lorenz_out.times[f] = lorenz_out.steps[f] * lc.time_step
                  /\ f > 1 => /\ lorenz_out.steps[f - 1] < lorenz_out.steps[f]
                              /\ lorenz_out.times[f - 1] < lorenz_out.times[f]

Witness_C9_SeveralFramesAfterBurnIn ==
    /\ Generated
    /\ config.lorenz.burn_in > 0
    /\ config.lorenz.time_step > 1
    /\ Len(lorenz_out.times) >= 2

LagColumnNames == <<"X_t", "X_t-1">>
FastColumnNames == <<"Y_0", "Y_1">>

ColumnValue(table, r, name) ==
    table.rows[r][CHOOSE d \in 1..Len(table.columns) : table.columns[d] = name]

\* C10: the conditioning array is the lag columns X_t, X_t-1, ... in that
\* order whatever the output mode; the target given to the normalizer is the
\* columns Y_0..Y_{J-1} in that order in mode "sample" (J channels) and the
\* single arithmetic mean of a row's J fast-variable columns in mode "mean"
\* (one channel); the Y scaling table has J channels or one accordingly.
Claim_C10_TargetByOutputMode ==
    Contains(calls, "normalize_data_Y") =>
        LET nc == config.gan.num_cond_inputs
            J == config.lorenz.J
            n == Len(combined_data.rows)
        IN  /\ Len(norm.X_series) = n
            /\ Len(norm.Y_target) = n
            /\ Len(norm.X_scaling_values) = nc
            /\ \A r \in 1..n :
                  /\ Len(norm.X_series[r]) = nc
                  /\ \A k \in 1..nc :
                        norm.X_series[r][k] =
                            Fraction(ColumnValue(combined_data, r, LagColumnNames[k]), 1)
            /\ config.gan.output = "sample" =>
                  /\ Len(norm.Y_scaling_values) = J
                  /\ \A r \in 1..n :
                        /\ Len(norm.Y_target[r]) = J
                        /\ \A j \in 1..J :
                              norm.Y_target[r][j] =
                                  Fraction(ColumnValue(combined_data, r, FastColumnNames[j]), 1)
            /\ config.gan.output = "mean" =>
                  /\ Len(norm.Y_scaling_values) = 1
                  /\ \A r \in 1..n :
                        /\ Len(norm.Y_target[r]) = 1
                        /\ norm.Y_target[r][1].den = J
                        /\ norm.Y_target[r][1].num =
                              SumSeq([j \in 1..J |->
                                  ColumnValue(combined_data, r, FastColumnNames[j])])

Witness_C10_MeanOfTwoColumns ==
    /\ Contains(calls, "normalize_data_Y")
    /\ config.gan.output = "mean"
    /\ config.lorenz.J = 2
    /\ config.gan.num_cond_inputs = 2
    /\ \E r \in 1..Len(combined_data.rows) :
          /\ norm.Y_target[r][1].num % 2 = 1
          /\ norm.X_series[r][1] # norm.X_series[r][2]

====
